---- MODULE Spec2Model ----
(***************************************************************************)
(* GluckoTrack (project.py): a blood-glucose log kept in a CSV file.       *)
(*                                                                         *)
(* Text is a sequence of one-character strings, the store is the text of   *)
(* data.csv, and csv.writer / csv.reader / float() / repr(float) /         *)
(* strftime / strptime are modelled character by character.                *)
(*                                                                         *)
(* A float is [kind, t]: kind "num" with t its value in tenths, "nan", or   *)
(* "inf" with t its sign.  Texts of the model's input sets carry at most   *)
(* one fractional digit, so tenths represent every value exactly.          *)
(***************************************************************************)
EXTENDS Integers, Sequences, FiniteSets, TLC

VARIABLES
    fileExists,  \* os.path.exists(DATA_FILE)
    fileText,    \* the characters of data.csv
    ret,         \* the last call: [op, arg, value]
    log,         \* ghost: what the environment put in (appended readings / initial rows)
    fault        \* ghost: the storage fault injected into the last call

vars == <<fileExists, fileText, ret, log, fault>>

----------------------------------------------------------------------------
(* Constants of project.py *)

NORMAL_BS_MIN == 70
NORMAL_BS_MAX == 139

T_Timestamp == <<"T","i","m","e","s","t","a","m","p">>
T_BloodGlucose == <<"B","l","o","o","d"," ","G","l","u","c","o","s","e"," ",
                    "(","m","g","/","d","L",")">>
T_State == <<"S","t","a","t","e">>
HEADERS == <<T_Timestamp, T_BloodGlucose, T_State>>

T_Low == <<"L","o","w">>
T_Normal == <<"N","o","r","m","a","l">>
T_High == <<"H","i","g","h">>

----------------------------------------------------------------------------
(* Floats *)

Num(t) == [kind |-> "num", t |-> t]
NaN == [kind |-> "nan", t |-> 0]
Inf(sign) == [kind |-> "inf", t |-> sign]
FromInt(n) == Num(n * 10)

\* where a float stands among the numbers: -infinity below them, +infinity above
Rank(a) == IF a.kind = "inf" THEN (IF a.t > 0 THEN 1 ELSE -1) ELSE 0

\* a < b on floats: every comparison with nan is false
FLt(a, b) ==
    /\ a.kind # "nan"
    /\ b.kind # "nan"
    /\ \/ Rank(a) < Rank(b)
       \/ Rank(a) = 0 /\ Rank(b) = 0 /\ a.t < b.t

\* a <= b on floats
FLe(a, b) ==
    /\ a.kind # "nan"
    /\ b.kind # "nan"
    /\ \/ Rank(a) < Rank(b)
       \/ Rank(a) = Rank(b) /\ (Rank(a) # 0 \/ a.t <= b.t)

\* a == b on floats (nan equals nothing, itself included)
FEq(a, b) == a.kind # "nan" /\ b.kind # "nan" /\ a = b

----------------------------------------------------------------------------
(* get_state *)

get_state_strict_min(blood_sugar_reading) ==
    IF FLe(blood_sugar_reading, FromInt(NORMAL_BS_MIN)) THEN T_Low
    ELSE IF FLe(FromInt(NORMAL_BS_MIN), blood_sugar_reading)
            /\ FLe(blood_sugar_reading, FromInt(NORMAL_BS_MAX)) THEN T_Normal
    ELSE T_High

get_state(blood_sugar_reading) ==
    IF FLt(blood_sugar_reading, FromInt(NORMAL_BS_MIN)) THEN T_Low
    ELSE IF FLe(FromInt(NORMAL_BS_MIN), blood_sugar_reading)
            /\ FLe(blood_sugar_reading, FromInt(NORMAL_BS_MAX)) THEN T_Normal
    ELSE T_High

----------------------------------------------------------------------------
(* Text *)

DigitChars == <<"0","1","2","3","4","5","6","7","8","9">>
IsDigit(c) == \E d \in 1..10 : DigitChars[d] = c
DigitVal(c) == (CHOOSE d \in 1..10 : DigitChars[d] = c) - 1
DigitChar(d) == DigitChars[d + 1]

IsSpace(c) == c \in {" ", "\t", "\n", "\r"}

RECURSIVE IntDigits(_)
IntDigits(n) ==
    IF n < 10 THEN <<DigitChar(n)>>
    ELSE IntDigits(n \div 10) \o <<DigitChar(n % 10)>>

Pad2(n) == <<DigitChar((n \div 10) % 10), DigitChar(n % 10)>>
Pad4(n) == <<DigitChar((n \div 1000) % 10), DigitChar((n \div 100) % 10),
             DigitChar((n \div 10) % 10), DigitChar(n % 10)>>

AllDigits(s) == \A i \in 1..Len(s) : IsDigit(s[i])

RECURSIVE DigitsVal(_)
DigitsVal(s) ==
    IF s = <<>> THEN 0
    ELSE DigitsVal(SubSeq(s, 1, Len(s) - 1)) * 10 + DigitVal(s[Len(s)])

\* str.strip(): without the leading and trailing whitespace
RECURSIVE Strip(_)
Strip(s) ==
    IF s = <<>> THEN s
    ELSE IF IsSpace(s[1]) THEN Strip(Tail(s))
    ELSE IF IsSpace(s[Len(s)]) THEN Strip(SubSeq(s, 1, Len(s) - 1))
    ELSE s

Lower(c) ==
    CASE c = "N" -> "n" [] c = "A" -> "a" [] c = "I" -> "i" [] c = "F" -> "f"
      [] OTHER -> c
LowerText(s) == [i \in 1..Len(s) |-> Lower(s[i])]

\* the position of the first c in s, 0 when there is none
IndexOf(s, c) ==
    IF \E i \in 1..Len(s) : s[i] = c
    THEN CHOOSE i \in 1..Len(s) : s[i] = c /\ \A j \in 1..(i - 1) : s[j] # c
    ELSE 0

----------------------------------------------------------------------------
(* repr(float) and float(str) *)

\* str(x) of a float x, as csv.writer and print write it
FloatRepr(x) ==
    IF x.kind = "nan" THEN <<"n","a","n">>
    ELSE IF x.kind = "inf" THEN
        (IF x.t < 0 THEN <<"-">> ELSE <<>>) \o <<"i","n","f">>
    ELSE LET a == IF x.t < 0 THEN -x.t ELSE x.t
         IN  (IF x.t < 0 THEN <<"-">> ELSE <<>>)
             \o IntDigits(a \div 10) \o <<".">> \o <<DigitChar(a % 10)>>

ValueError == [ok |-> FALSE, v |-> NaN]
Parsed(x) == [ok |-> TRUE, v |-> x]

\* a decimal literal's integer digits ip and fraction digits fp (a fraction past its
\* first digit is read only when it is zeros)
DecimalValue(ip, fp, neg) ==
    IF /\ AllDigits(ip) /\ AllDigits(fp)
       /\ Len(ip) + Len(fp) > 0
       /\ \A i \in 2..Len(fp) : fp[i] = "0"
    THEN Parsed(Num((IF neg THEN -1 ELSE 1)
                    * (DigitsVal(ip) * 10 + (IF fp = <<>> THEN 0 ELSE DigitVal(fp[1])))))
    ELSE ValueError

\* the unsigned part of a float literal: digits, digits. , digits.digits , .digits
SplitAtDot(b, dot, neg) ==
    IF dot = 0 THEN DecimalValue(b, <<>>, neg)
    ELSE DecimalValue(SubSeq(b, 1, dot - 1), SubSeq(b, dot + 1, Len(b)), neg)

ParseUnsigned(b, neg) == SplitAtDot(b, IndexOf(b, "."), neg)

ParseBody(body, low, neg) ==
    IF low = <<"n","a","n">> THEN Parsed(NaN)
    ELSE IF low = <<"i","n","f">> THEN Parsed(Inf(IF neg THEN -1 ELSE 1))
    ELSE ParseUnsigned(body, neg)

ParseSigned(w) ==
    IF w # <<>> /\ w[1] \in {"+", "-"}
    THEN ParseBody(Tail(w), LowerText(Tail(w)), w[1] = "-")
    ELSE ParseBody(w, LowerText(w), FALSE)

\* float(s): surrounding whitespace dropped, an optional sign, then nan, inf or
\* a decimal literal; anything else raises ValueError
ParseFloat(s) == ParseSigned(Strip(s))

----------------------------------------------------------------------------
(* datetime: strftime and strptime with "%Y-%m-%d %H:%M:%S" *)

IsLeap(y) == (y % 4 = 0 /\ y % 100 # 0) \/ y % 400 = 0
DaysInMonth(y, m) ==
    IF m = 2 THEN (IF IsLeap(y) THEN 29 ELSE 28)
    ELSE IF m \in {4, 6, 9, 11} THEN 30 ELSE 31

\* dt.strftime("%Y-%m-%d %H:%M:%S")
strftime(dt) ==
    Pad4(dt.year) \o <<"-">> \o Pad2(dt.month) \o <<"-">> \o Pad2(dt.day) \o <<" ">>
    \o Pad2(dt.hour) \o <<":">> \o Pad2(dt.minute) \o <<":">> \o Pad2(dt.second)

\* the digits of a %m %d %H %M %S directive starting at i: at most two
FieldDigits(s, i) ==
    IF i <= Len(s) /\ IsDigit(s[i])
    THEN IF i + 1 <= Len(s) /\ IsDigit(s[i + 1]) THEN 2 ELSE 1
    ELSE 0

RECURSIVE SkipSpaces(_, _)
SkipSpaces(s, i) == IF i <= Len(s) /\ IsSpace(s[i]) THEN SkipSpaces(s, i + 1) ELSE i

NoDate == [ok |-> FALSE, year |-> 0, month |-> 0]

\* a directive of n digits at i with a value in lo..hi, then the character sep:
\* the value and the place after sep; ok is FALSE when the text does not match
Directive(s, i, n, lo, hi, sep) ==
    IF n > 0 /\ i + n <= Len(s) /\ s[i + n] = sep
       /\ DigitsVal(SubSeq(s, i, i + n - 1)) \in lo..hi
    THEN [ok |-> TRUE, val |-> DigitsVal(SubSeq(s, i, i + n - 1)), next |-> i + n + 1]
    ELSE [ok |-> FALSE, val |-> 0, next |-> 0]

\* %S, the last directive: the text ends after it
LastDirective(s, i, n) ==
    IF n > 0 /\ i + n - 1 = Len(s) /\ DigitsVal(SubSeq(s, i, i + n - 1)) \in 0..59
    THEN [ok |-> TRUE, val |-> DigitsVal(SubSeq(s, i, i + n - 1)), next |-> i + n]
    ELSE [ok |-> FALSE, val |-> 0, next |-> 0]

\* %d: one or two digits, or a blank and one digit; whitespace follows
DayDirective(s, i) ==
    IF i + 2 <= Len(s) /\ s[i] = " " /\ IsDigit(s[i + 1]) /\ s[i + 1] # "0"
       /\ IsSpace(s[i + 2])
    THEN [ok |-> TRUE, val |-> DigitVal(s[i + 1]), next |-> i + 2]
    ELSE IF FieldDigits(s, i) > 0 /\ i + FieldDigits(s, i) <= Len(s)
            /\ IsSpace(s[i + FieldDigits(s, i)])
            /\ DigitsVal(SubSeq(s, i, i + FieldDigits(s, i) - 1)) \in 1..31
    THEN [ok |-> TRUE, val |-> DigitsVal(SubSeq(s, i, i + FieldDigits(s, i) - 1)),
          next |-> i + FieldDigits(s, i)]
    ELSE [ok |-> FALSE, val |-> 0, next |-> 0]

AfterMinute(s, y, mo, d, mi) ==
    IF ~mi.ok THEN NoDate
    ELSE IF LastDirective(s, mi.next, FieldDigits(s, mi.next)).ok
            /\ y >= 1 /\ d <= DaysInMonth(y, mo)
    THEN [ok |-> TRUE, year |-> y, month |-> mo]
    ELSE NoDate

AfterHour(s, y, mo, d, h) ==
    IF ~h.ok THEN NoDate
    ELSE AfterMinute(s, y, mo, d, Directive(s, h.next, FieldDigits(s, h.next), 0, 59, ":"))

HourAt(s, y, mo, d, i) ==
    AfterHour(s, y, mo, d, Directive(s, i, FieldDigits(s, i), 0, 23, ":"))

AfterDay(s, y, mo, d) ==
    IF ~d.ok THEN NoDate ELSE HourAt(s, y, mo, d.val, SkipSpaces(s, d.next))

AfterMonth(s, y, m) ==
    IF ~m.ok THEN NoDate ELSE AfterDay(s, y, m.val, DayDirective(s, m.next))

\* datetime.strptime(s, "%Y-%m-%d %H:%M:%S"): the year and month of the datetime;
\* ok is FALSE where it raises ValueError
strptime(s) ==
    IF Len(s) >= 5 /\ AllDigits(SubSeq(s, 1, 4)) /\ s[5] = "-"
    THEN AfterMonth(s, DigitsVal(SubSeq(s, 1, 4)), Directive(s, 6, FieldDigits(s, 6), 1, 12, "-"))
    ELSE NoDate

----------------------------------------------------------------------------
(* csv.writer (excel dialect: delimiter ",", quotechar '"', doublequote,     *)
(* QUOTE_MINIMAL, lineterminator "\r\n")                                     *)

NeedsQuote(f) == \E i \in 1..Len(f) : f[i] \in {",", "\"", "\r", "\n"}

RECURSIVE DoubleQuotes(_)
DoubleQuotes(f) ==
    IF f = <<>> THEN <<>>
    ELSE (IF f[1] = "\"" THEN <<"\"", "\"">> ELSE <<f[1]>>) \o DoubleQuotes(Tail(f))

WriteField_unquoted(f) == f

WriteField(f) ==
    IF NeedsQuote(f) THEN <<"\"">> \o DoubleQuotes(f) \o <<"\"">> ELSE f

RECURSIVE JoinFields(_)
JoinFields(fs) ==
    IF fs = <<>> THEN <<>>
    ELSE IF Len(fs) = 1 THEN WriteField(fs[1])
    ELSE WriteField(fs[1]) \o <<",">> \o JoinFields(Tail(fs))

\* the text writer.writerow(fs) writes, fs already str() of each item
writerow(fs) ==
    (IF fs = << <<>> >> THEN <<"\"", "\"">> ELSE JoinFields(fs)) \o <<"\r", "\n">>

----------------------------------------------------------------------------
(* csv.reader over a file opened with newline="" *)

EOL == "EOL"
IsNewline(c) == c \in {"\n", "\r", EOL}

ReaderInit ==
    [st |-> "START_RECORD", field |-> <<>>, fields |-> <<>>, rows |-> <<>>, err |-> FALSE]

SaveField(r, next) ==
    [r EXCEPT !.fields = Append(r.fields, r.field), !.field = <<>>, !.st = next]
AddChar(r, c, next) == [r EXCEPT !.field = Append(r.field, c), !.st = next]
AfterNewline(c) == IF c = EOL THEN "START_RECORD" ELSE "EAT_CRNL"

\* parse_process_char
ProcessChar(r, c) ==
    CASE r.st = "START_RECORD" /\ c = EOL -> r
      [] r.st = "START_RECORD" /\ c \in {"\n", "\r"} -> [r EXCEPT !.st = "EAT_CRNL"]
      [] r.st \in {"START_RECORD", "START_FIELD"} /\ ~(r.st = "START_RECORD" /\ IsNewline(c)) ->
            IF IsNewline(c) THEN SaveField(r, AfterNewline(c))
            ELSE IF c = "\"" THEN [r EXCEPT !.st = "IN_QUOTED_FIELD"]
            ELSE IF c = "," THEN SaveField(r, "START_FIELD")
            ELSE AddChar(r, c, "IN_FIELD")
      [] r.st = "IN_FIELD" ->
            IF IsNewline(c) THEN SaveField(r, AfterNewline(c))
            ELSE IF c = "," THEN SaveField(r, "START_FIELD")
            ELSE AddChar(r, c, "IN_FIELD")
      [] r.st = "IN_QUOTED_FIELD" ->
            IF c = EOL THEN r
            ELSE IF c = "\"" THEN [r EXCEPT !.st = "QUOTE_IN_QUOTED_FIELD"]
            ELSE AddChar(r, c, "IN_QUOTED_FIELD")
      [] r.st = "QUOTE_IN_QUOTED_FIELD" ->
            IF c = "\"" THEN AddChar(r, c, "IN_QUOTED_FIELD")
            ELSE IF c = "," THEN SaveField(r, "START_FIELD")
            ELSE IF IsNewline(c) THEN SaveField(r, AfterNewline(c))
            ELSE AddChar(r, c, "IN_FIELD")
      [] r.st = "EAT_CRNL" ->
            IF c \in {"\n", "\r"} THEN r
            ELSE IF c = EOL THEN [r EXCEPT !.st = "START_RECORD"]
            ELSE [r EXCEPT !.err = TRUE]

\* a line of the file ends after character i: "\n", a "\r" no "\n" follows, or the end
LineEndsAt(s, i) ==
    \/ s[i] = "\n"
    \/ s[i] = "\r" /\ ~(i < Len(s) /\ s[i + 1] = "\n")
    \/ i = Len(s)

\* the record is complete when a line leaves the parser in START_RECORD
Complete(e) ==
    IF e.err \/ e.st # "START_RECORD" THEN e
    ELSE [e EXCEPT !.rows = Append(e.rows, e.fields), !.fields = <<>>, !.field = <<>>]

EndLine(r) == Complete(ProcessChar(r, EOL))

AfterChar(r1, s, i) == IF r1.err \/ ~LineEndsAt(s, i) THEN r1 ELSE EndLine(r1)

\* one character of the input: parse_process_char, and the end of its line
ReadChar(r, s, i) == IF r.err THEN r ELSE AfterChar(ProcessChar(r, s[i]), s, i)

\* the characters lo..hi of s, in order (the range is halved to keep the nesting low)
RECURSIVE ReadRange(_, _, _, _)
RECURSIVE ReadRest(_, _, _, _)
ReadRest(left, s, lo, hi) == IF left.err THEN left ELSE ReadRange(left, s, lo, hi)
ReadRange(r, s, lo, hi) ==
    IF lo > hi THEN r
    ELSE IF lo = hi THEN ReadChar(r, s, lo)
    ELSE ReadRest(ReadRange(r, s, lo, (lo + hi) \div 2), s, (lo + hi) \div 2 + 1, hi)

\* the input ends inside a record: the pending field ends the record
Finish(r) ==
    IF ~r.err /\ (r.field # <<>> \/ r.st = "IN_QUOTED_FIELD")
    THEN [r EXCEPT !.rows = Append(r.rows, Append(r.fields, r.field)),
                   !.fields = <<>>, !.field = <<>>, !.st = "START_RECORD"]
    ELSE r

\* Reader_iternext until the input ends
ReadAll(s) == Finish(ReadRange(ReaderInit, s, 1, Len(s)))

\* list(csv.reader(file)): [rows, err], err when the reader raises csv.Error
reader(s) == ReadAll(s)

----------------------------------------------------------------------------
(* load_data *)

\* lines 66-71: the row with its value field made a float, or nothing when
\* float() raises ValueError or row[1] raises IndexError
WithValue(row, p) == IF p.ok THEN << [row EXCEPT ![2] = p.v] >> ELSE <<>>
ConvertRow(row) == IF Len(row) >= 2 THEN WithValue(row, ParseFloat(row[2])) ELSE <<>>

RECURSIVE ConvertRows(_)
ConvertRows(rows) ==
    IF rows = <<>> THEN <<>> ELSE ConvertRow(rows[1]) \o ConvertRows(Tail(rows))

\* lines 58-75: the rows after the header; [] when next(reader) or the reader raises
RowsAfterHeader(r) == IF r.err \/ r.rows = <<>> THEN <<>> ELSE ConvertRows(Tail(r.rows))
ReadData(text) == RowsAfterHeader(reader(text))

Returned(x) == [raised |-> FALSE, value |-> x]
Raised == [raised |-> TRUE, value |-> <<>>]

\* load_data() on a store (exists, text) with storage fault f:
\* os.path.exists answers False on an OSError; os.stat is called outside the try
load_data(exists, text, f) ==
    IF ~exists \/ f = "exists" THEN Returned(<<>>)
    ELSE IF f = "stat" THEN Raised
    ELSE IF text = <<>> THEN Returned(<<>>)
    ELSE IF f \in {"open", "io"} THEN Returned(<<>>)
    ELSE Returned(ReadData(text))

----------------------------------------------------------------------------
(* save_new_reading *)

\* line 80
FileIsEmpty(file_exists, text) == ~file_exists \/ text = <<>>

\* line 87: the data row
DataRow(blood_sugar, state, timestamp) == <<timestamp, FloatRepr(blood_sugar), state>>

\* lines 85-87: what the call hands to the file object
Written_header_always(file_is_empty, blood_sugar, state, timestamp) ==
    writerow(HEADERS) \o writerow(DataRow(blood_sugar, state, timestamp))

Written(file_is_empty, blood_sugar, state, timestamp) ==
    (IF file_is_empty THEN writerow(HEADERS) ELSE <<>>)
    \o writerow(DataRow(blood_sugar, state, timestamp))

P_Saved == "Reading successfully saved."
P_Error == "Error saving data"
None == "None"

\* lines 82-90 with the text the call writes: the store after the call, whether an
\* exception left the call, what it returned and what it printed
Append_(exists, text, data, f, k) ==
    IF f = "open"
    THEN [exists |-> exists, text |-> text, raised |-> FALSE, value |-> None,
          out |-> <<P_Error>>]
    ELSE IF f = "io"
    THEN [exists |-> TRUE, text |-> text \o SubSeq(data, 1, k), raised |-> FALSE,
          value |-> None, out |-> <<P_Error>>]
    ELSE [exists |-> TRUE, text |-> text \o data, raised |-> FALSE, value |-> None,
          out |-> <<P_Saved>>]

\* lines 79-80 done: file_exists is what os.path.exists answered
AfterExists(file_exists, exists, text, blood_sugar, state, timestamp, f, k) ==
    IF file_exists /\ f = "stat"
    THEN [exists |-> exists, text |-> text, raised |-> TRUE, value |-> None, out |-> <<>>]
    ELSE Append_(exists, text,
                 Written(FileIsEmpty(file_exists, text), blood_sugar, state, timestamp),
                 f, k)

\* save_new_reading(blood_sugar, state, timestamp) on a store (exists, text) with storage
\* fault f; k is how much of the buffered text reached the file when the write failed.
\* os.path.exists answers False on an OSError; os.stat is called outside the try.
save_new_reading(exists, text, blood_sugar, state, timestamp, f, k) ==
    AfterExists(exists /\ f # "exists", exists, text, blood_sugar, state, timestamp, f, k)

----------------------------------------------------------------------------
(* get_blood_sugar_input, add_reading_flow *)

\* line 32
Rejected(bs_value) == FLe(bs_value, FromInt(0))

\* lines 27-37 over the lines the user types: the first one accepted, and how many
\* lines were read
RECURSIVE get_blood_sugar_input(_)
Later(q) == [q EXCEPT !.used = IF q.done THEN q.used + 1 ELSE 0]
Attempt(p, typed) ==
    IF p.ok /\ ~Rejected(p.v) THEN [done |-> TRUE, v |-> p.v, used |-> 1]
    ELSE Later(get_blood_sugar_input(Tail(typed)))
get_blood_sugar_input(typed) ==
    IF typed = <<>> THEN [done |-> FALSE, v |-> NaN, used |-> 0]
    ELSE Attempt(ParseFloat(typed[1]), typed)

\* line 50
get_current_datetime_str(now) == strftime(now)

----------------------------------------------------------------------------
(* get_monthly_summary_data *)

\* line 117
MonthMatches_month_only(dt, year, month) == dt.month = month

MonthMatches(dt, year, month) == dt.year = year /\ dt.month = month

\* lines 116-118 for one row
InMonth(dt, year, month) == dt.ok /\ MonthMatches(dt, year, month)

\* lines 113-121
RECURSIVE MonthlyReadings(_, _, _)
MonthlyReadings(all_data, year, month) ==
    IF all_data = <<>> THEN <<>>
    ELSE (IF InMonth(strptime(all_data[1][1]), year, month)
          THEN <<all_data[1][2]>> ELSE <<>>)
         \o MonthlyReadings(Tail(all_data), year, month)

\* the rows of a month, whole (used where a variant of the code reads the stored State)
RECURSIVE MonthlyRows(_, _, _)
MonthlyRows(all_data, year, month) ==
    IF all_data = <<>> THEN <<>>
    ELSE (IF InMonth(strptime(all_data[1][1]), year, month)
          THEN <<all_data[1]>> ELSE <<>>)
         \o MonthlyRows(Tail(all_data), year, month)

\* min(xs): the first item no later item is < than
RECURSIVE PyMinFrom(_, _)
PyMinFrom(cur, xs) ==
    IF xs = <<>> THEN cur
    ELSE PyMinFrom(IF FLt(xs[1], cur) THEN xs[1] ELSE cur, Tail(xs))
PyMin(xs) == PyMinFrom(xs[1], Tail(xs))

\* max(xs)
RECURSIVE PyMaxFrom(_, _)
PyMaxFrom(cur, xs) ==
    IF xs = <<>> THEN cur
    ELSE PyMaxFrom(IF FLt(cur, xs[1]) THEN xs[1] ELSE cur, Tail(xs))
PyMax(xs) == PyMaxFrom(xs[1], Tail(xs))

RECURSIVE SumTenths(_)
SumTenths(xs) == IF xs = <<>> THEN 0 ELSE xs[1].t + SumTenths(Tail(xs))

RECURSIVE Gcd(_, _)
Gcd(a, b) == IF b = 0 THEN a ELSE Gcd(b, a % b)
Abs(a) == IF a < 0 THEN -a ELSE a

\* the rational num/den tenths in lowest terms
Reduced(num, den, g) == [kind |-> "num", num |-> num \div g, den |-> den \div g]
Ratio(num, den) == Reduced(num, den, Gcd(Abs(num), den))

\* statistics.mean(xs), xs not empty: nan when a nan or both infinities are in xs, an
\* infinity when one is, else the exact quotient
Mean(xs) ==
    LET hasNan == \E i \in 1..Len(xs) : xs[i].kind = "nan"
        hasPos == \E i \in 1..Len(xs) : xs[i].kind = "inf" /\ xs[i].t > 0
        hasNeg == \E i \in 1..Len(xs) : xs[i].kind = "inf" /\ xs[i].t < 0
    IN  IF hasNan \/ (hasPos /\ hasNeg) THEN [kind |-> "nan", num |-> 0, den |-> 1]
        ELSE IF hasPos THEN [kind |-> "inf", num |-> 1, den |-> 1]
        ELSE IF hasNeg THEN [kind |-> "inf", num |-> -1, den |-> 1]
        ELSE Ratio(SumTenths(xs), Len(xs))

Count_high_typo(c, state) ==
    IF state = T_Normal THEN [c EXCEPT !.normal = @ + 1]
    ELSE IF state = T_Low THEN [c EXCEPT !.low = @ + 1]
    ELSE IF state = <<"h","i","g","h">> THEN [c EXCEPT !.high = @ + 1]
    ELSE c

\* lines 135-141: one turn of the loop
Count(c, state) ==
    IF state = T_Normal THEN [c EXCEPT !.normal = @ + 1]
    ELSE IF state = T_Low THEN [c EXCEPT !.low = @ + 1]
    ELSE [c EXCEPT !.high = @ + 1]

\* lines 130-141: how many readings the loop counts under each name
RECURSIVE StateCounts(_)
StateCounts(monthly_readings) ==
    IF monthly_readings = <<>> THEN [normal |-> 0, low |-> 0, high |-> 0]
    ELSE Count(StateCounts(Tail(monthly_readings)), get_state(monthly_readings[1]))

Absent == [some |-> FALSE]

\* lines 126-153: the dictionary returned
SummaryRecord(monthly_readings, c) ==
    [some |-> TRUE,
     avg |-> Mean(monthly_readings),
     min |-> PyMin(monthly_readings),
     max |-> PyMax(monthly_readings),
     normal_count |-> c.normal,
     low_count |-> c.low,
     high_count |-> c.high,
     total_readings |-> Len(monthly_readings)]

Summary_no_sentinel(monthly_readings, c) ==
    IF monthly_readings = <<>>
    THEN [some |-> TRUE, avg |-> Ratio(0, 1), min |-> Num(0), max |-> Num(0),
          normal_count |-> 0, low_count |-> 0, high_count |-> 0, total_readings |-> 0]
    ELSE SummaryRecord(monthly_readings, c)

\* lines 123-153
Summary(monthly_readings, c) ==
    IF monthly_readings = <<>> THEN Absent ELSE SummaryRecord(monthly_readings, c)

Summarize(monthly_readings) == Summary(monthly_readings, StateCounts(monthly_readings))

\* the counts taken from the stored State of each row of the month
RECURSIVE StoredStateCounts(_)
StoredStateCounts(rows) ==
    IF rows = <<>> THEN [normal |-> 0, low |-> 0, high |-> 0]
    ELSE Count(StoredStateCounts(Tail(rows)),
               IF Len(rows[1]) >= 3 THEN rows[1][3] ELSE <<>>)

get_monthly_summary_data_stored_state(all_data, year, month) ==
    Summary(MonthlyReadings(all_data, year, month),
            StoredStateCounts(MonthlyRows(all_data, year, month)))

\* lines 110-153 on the rows load_data returned
get_monthly_summary_data(all_data, year, month) ==
    Summarize(MonthlyReadings(all_data, year, month))

----------------------------------------------------------------------------
(* display_all_readings *)

\* lines 94-103: line 101 reads row[2] of every loaded row
display_all_readings(all_data) ==
    IF all_data = <<>> THEN Returned(<<>>)
    ELSE IF \E i \in 1..Len(all_data) : Len(all_data[i]) < 3 THEN Raised
    ELSE Returned([i \in 1..Len(all_data) |->
                     <<all_data[i][1], FloatRepr(all_data[i][2]), all_data[i][3]>>])

----------------------------------------------------------------------------
(* Bounds and input sets *)

MaxTenths == 1500     \* get_state is tried on -MaxTenths..MaxTenths tenths
MaxAppends == 3       \* save_new_reading calls of the store-API runs
MaxReadings == 2      \* add_reading_flow calls of the program runs
MaxAttempts == 2      \* lines typed at one blood-sugar prompt
MaxRows == 3          \* rows after the first of an arbitrary store
MaxIoCalls == 2       \* calls of the runs with storage faults

Clock(y, mo, d, h, mi, s) ==
    [year |-> y, month |-> mo, day |-> d, hour |-> h, minute |-> mi, second |-> s]
NoClock == Clock(0, 0, 0, 0, 0, 0)

Clocks == {Clock(2025, 1, 5, 8, 0, 0), Clock(2025, 2, 1, 23, 59, 59),
           Clock(2024, 1, 15, 18, 30, 0)}

Queries == {<<2025, 1>>, <<2025, 2>>, <<2024, 1>>}

\* what a user may type at the prompt
UserInputs == { <<"9","0">>, <<"6","5",".","5">>, <<"1","4","0">>, <<" ","7","0"," ">>,
                <<"-","5">>, <<"0">>, <<"a","b","c">>, <<"n","a","n">> }

TypedLines == UNION { [1..n -> UserInputs] : n \in 1..MaxAttempts }

\* arguments of direct save_new_reading calls: (blood_sugar, state, timestamp)
ApiTs1 == strftime(Clock(2025, 1, 1, 10, 0, 0))
ApiTs2 == strftime(Clock(2025, 2, 2, 14, 30, 0))
ApiReadings == {
    <<Num(950), T_Normal, ApiTs1>>,
    <<Num(1800), T_High, ApiTs2>>,
    <<Num(695), T_High, ApiTs1>>,
    <<Num(1395), <<"a", ",", "\"", "b">>, ApiTs1>>,
    <<Num(700), <<"x", "\r", "\n", "y">>, <<" ", "2", "0", "2", "5", ",">>>>,
    <<NaN, <<>>, <<>>>>,
    <<Num(-50), <<"\"">>, <<"\n">>>> }

Faults == {"none", "exists", "stat", "open", "io"}

\* arguments of the save_new_reading calls of the runs with storage faults
IoReadings == { <<Num(950), T_Normal, ApiTs1>>, <<Num(1800), T_High, ApiTs2>> }

\* get_state's arguments
ClassifyValues ==
    {Num(t) : t \in (0 - MaxTenths)..MaxTenths}
    \cup {NaN, Inf(1), Inf(-1)}

\* Rows of an arbitrary store.  f is the row's fields as they stand in the file; the rest
\* says what the row means: the year and month of its timestamp (0 when it is no
\* timestamp), whether its value field is a float literal, and the float it denotes.
Entry(f, y, m, num, v) == [f |-> f, year |-> y, month |-> m, num |-> num, v |-> v]

T_Bogus == <<"B","o","g","u","s">>

Catalogue == {
    Entry(<<strftime(Clock(2025, 1, 5, 8, 0, 0)), <<"9","0",".","0">>, T_Normal>>,
          2025, 1, TRUE, Num(900)),
    Entry(<<strftime(Clock(2025, 1, 10, 12, 0, 0)), <<"1","5","0",".","0">>, T_High>>,
          2025, 1, TRUE, Num(1500)),
    Entry(<< <<"2","0","2","5","-","1","-","5"," ","8",":","0",":","0">>, <<"6","5">>, T_High>>,
          2025, 1, TRUE, Num(650)),
    Entry(<<strftime(Clock(2025, 2, 1, 10, 0, 0)), <<"1","4","0",".","0">>, T_Normal, <<"x">>>>,
          2025, 2, TRUE, Num(1400)),
    Entry(<<strftime(Clock(2024, 1, 1, 10, 0, 0)), <<"1","3","9",".","5">>, T_Bogus>>,
          2024, 1, TRUE, Num(1395)),
    Entry(<<strftime(Clock(2025, 1, 25, 7, 0, 0)), <<"a","b","c">>, T_Normal>>,
          2025, 1, FALSE, NaN),
    Entry(<<>>, 0, 0, FALSE, NaN),
    Entry(<<strftime(Clock(2025, 1, 7, 10, 0, 0)), <<"7","0">>>>,
          2025, 1, TRUE, Num(700)),
    Entry(<< <<"2","0","2","5","-","0","1">>, <<"1","0","0",".","0">>, T_Normal>>,
          0, 0, TRUE, Num(1000)),
    Entry(<<strftime(Clock(2025, 1, 20, 9, 0, 0)), <<"n","a","n">>, T_High>>,
          2025, 1, TRUE, NaN) }

\* what the first row of an arbitrary store may be: the header, or a data row
FirstRows == { HEADERS,
               <<strftime(Clock(2025, 1, 2, 8, 0, 0)), <<"5","0",".","0">>, T_Low>> }

RowSeqs == UNION { [1..n -> Catalogue] : n \in 0..MaxRows }

\* a row as it stands in the file: its fields, commas between them, "\r\n" after
RECURSIVE RawFields(_)
RawFields(fs) ==
    IF fs = <<>> THEN <<>>
    ELSE IF Len(fs) = 1 THEN fs[1]
    ELSE fs[1] \o <<",">> \o RawFields(Tail(fs))
RawLine(fs) == RawFields(fs) \o <<"\r", "\n">>

RECURSIVE RawLines(_)
RawLines(es) == IF es = <<>> THEN <<>> ELSE RawLine(es[1].f) \o RawLines(Tail(es))

----------------------------------------------------------------------------
(* Calls *)

NoCall == [op |-> "none", arg |-> <<>>, raised |-> FALSE, value |-> None, out |-> <<>>]

\* one save_new_reading call, r its outcome, and what the environment knows of it
Saved(r, op, blood_sugar, state, timestamp, f, typed, now) ==
    /\ fileExists' = r.exists
    /\ fileText' = r.text
    /\ ret' = [op |-> op, arg |-> <<blood_sugar, state, timestamp, typed>>,
               raised |-> r.raised, value |-> r.value, out |-> r.out]
    /\ log' = Append(log, [timestamp |-> timestamp, value |-> blood_sugar,
                           label |-> state,
                           was_empty |-> ~fileExists \/ fileText = <<>>,
                           pre |-> Len(fileText), post |-> Len(r.text),
                           now |-> now])
    /\ fault' = f

DoSave(op, blood_sugar, state, timestamp, f, k, typed, now) ==
    Saved(save_new_reading(fileExists, fileText, blood_sugar, state, timestamp, f, k),
          op, blood_sugar, state, timestamp, f, typed, now)

\* a call that leaves the store alone
Called(op, arg, raised, value, f) ==
    /\ ret' = [op |-> op, arg |-> arg, raised |-> raised, value |-> value, out |-> <<>>]
    /\ fault' = f
    /\ UNCHANGED <<fileExists, fileText, log>>

\* save_new_reading(blood_sugar, state, timestamp), the storage working
SaveNewReading ==
    /\ Len(log) < MaxAppends
    /\ \E a \in ApiReadings :
          DoSave("save_new_reading", a[1], a[2], a[3], "none", 0, <<>>, NoClock)

Loaded(r, f) == Called("load_data", <<>>, r.raised, r.value, f)

\* load_data(), the storage working
LoadData == Loaded(load_data(fileExists, fileText, "none"), "none")

Summarized(op, r, q) ==
    Called(op, q, r.raised, get_monthly_summary_data(r.value, q[1], q[2]), "none")

SummarizedAny(op, r, qs) == \E q \in qs : Summarized(op, r, q)

\* get_monthly_summary_data(year, month)
GetMonthlySummaryData ==
    SummarizedAny("get_monthly_summary_data", load_data(fileExists, fileText, "none"),
                  Queries)

Displayed(d) == Called("display_all_readings", <<>>, d.raised, d.value, "none")

\* display_all_readings()
DisplayAllReadings ==
    Displayed(display_all_readings(load_data(fileExists, fileText, "none").value))

Accepted(g, typed) ==
    /\ g.done
    /\ g.used = Len(typed)
    /\ \E now \in Clocks :
          DoSave("add_reading_flow", g.v, get_state(g.v), get_current_datetime_str(now),
                 "none", 0, typed, now)

\* add_reading_flow(): the user types lines until one is accepted
AddReadingFlow ==
    /\ Len(log) < MaxReadings
    /\ \E typed \in TypedLines : Accepted(get_blood_sugar_input(typed), typed)

\* lines 165-170: the month and year the prompt loop lets through
ValidQuery(q) ==
    /\ 1 <= q[2] /\ q[2] <= 12
    /\ {now \in Clocks : 1900 <= q[1] /\ q[1] <= now.year + 1} # {}

\* display_monthly_summary_flow(): year and month pass the checks of lines 165-170,
\* then get_monthly_summary_data(year, month)
DisplayMonthlySummaryFlow ==
    SummarizedAny("display_monthly_summary_flow",
                  load_data(fileExists, fileText, "none"),
                  {q \in Queries : ValidQuery(q)})

----------------------------------------------------------------------------
(* The program: main()'s menu over a store that starts absent or empty *)

InitEmpty ==
    /\ fileExists \in BOOLEAN
    /\ fileText = <<>>
    /\ ret = NoCall
    /\ log = <<>>
    /\ fault = "none"

Next == AddReadingFlow \/ DisplayAllReadings \/ DisplayMonthlySummaryFlow

Spec == InitEmpty /\ [][Next]_vars

----------------------------------------------------------------------------
(* The store's functions called directly, as test_project.py calls them *)

NextApi == SaveNewReading \/ LoadData \/ GetMonthlySummaryData

SpecApi == InitEmpty /\ [][NextApi]_vars

----------------------------------------------------------------------------
(* The read functions over an arbitrary store *)

InitStore ==
    /\ ret = NoCall
    /\ fault = "none"
    /\ \/ /\ fileExists \in BOOLEAN
          /\ fileText = <<>>
          /\ log = [first |-> <<>>, rows |-> <<>>]
       \/ /\ fileExists = TRUE
          /\ \E first \in FirstRows, rows \in RowSeqs :
                /\ log = [first |-> first, rows |-> rows]
                /\ fileText = RawLine(first) \o RawLines(rows)

\* The reads leave the store as it is, so a second call in a run finds what the first
\* found: a run makes one call.
NextStore ==
    \/ ret.op = "none" /\ LoadData
    \/ ret.op = "none" /\ GetMonthlySummaryData
    \/ ret.op = "none" /\ DisplayAllReadings

SpecStore == InitStore /\ [][NextStore]_vars

----------------------------------------------------------------------------
(* get_state alone *)

GetState ==
    \E v \in ClassifyValues : Called("get_state", v, FALSE, get_state(v), "none")

SpecClassify == InitEmpty /\ [][GetState]_vars

----------------------------------------------------------------------------
(* The store's functions when a storage step may fail *)

\* the steps one fault can hit: a failing os.path.exists answers False, which differs
\* from its answer only on a file that exists, and os.stat runs only on such a file
SaveFaults == {f \in Faults : f \in {"exists", "stat"} => fileExists}

\* how much of the buffered text a failed write can leave: any proper start of it
Partial(f, data) == IF f = "io" THEN 0..(Len(data) - 1) ELSE {0}

SaveNewReadingIo ==
    /\ Len(log) < MaxIoCalls
    /\ \E a \in IoReadings, f \in SaveFaults :
          \E k \in Partial(f, Written(FileIsEmpty(fileExists /\ f # "exists", fileText),
                                      a[1], a[2], a[3])) :
              DoSave("save_new_reading", a[1], a[2], a[3], f, k, <<>>, NoClock)

\* open and read run only on a file that exists and is not empty
LoadFaults ==
    {f \in Faults : /\ f \in {"exists", "stat"} => fileExists
                    /\ f \in {"open", "io"} => fileExists /\ fileText # <<>>}

LoadDataIo == \E f \in LoadFaults : Loaded(load_data(fileExists, fileText, f), f)

NextIo == SaveNewReadingIo \/ LoadDataIo

SpecIo == InitEmpty /\ [][NextIo]_vars

----------------------------------------------------------------------------
(* Claims *)

\* C1: for every number v, get_state(v) is Low iff v < 70, Normal iff 70 <= v <= 139 and
\* High iff v > 139, and it is one of the three labels.  (Numbers are in tenths: 70 is
\* 700; the infinities are below and above every number.)
BelowTenths(v, n) == (v.kind = "inf" /\ v.t < 0) \/ (v.kind = "num" /\ v.t < n)
AboveTenths(v, n) == (v.kind = "inf" /\ v.t > 0) \/ (v.kind = "num" /\ v.t > n)
C1_Label(v, label) ==
    /\ label \in {T_Low, T_Normal, T_High}
    /\ label = T_Low <=> BelowTenths(v, 700)
    /\ label = T_Normal <=> ~BelowTenths(v, 700) /\ ~AboveTenths(v, 1390)
    /\ label = T_High <=> AboveTenths(v, 1390)
C1_Classification ==
    (ret.op = "get_state" /\ ret.arg.kind # "nan") => C1_Label(ret.arg, ret.value)

\* C1's case: the boundary 139 is classified, and it is Normal
C1_Witness == ret.op = "get_state" /\ ret.arg = Num(1390) /\ ret.value = T_Normal

\* C2: after N save_new_reading calls on a store that started absent or empty, load_data
\* returns N rows without raising, the i-th [timestamp_i, value_i, label_i] of the i-th
\* call: the texts equal, the value the same float (nan read back as nan).
SameFloat(a, b) == FEq(a, b) \/ (a.kind = "nan" /\ b.kind = "nan")
C2_Row(row, e) ==
    /\ Len(row) = 3
    /\ row[1] = e.timestamp
    /\ SameFloat(row[2], e.value)
    /\ row[3] = e.label
C2_RoundTrip ==
    ret.op = "load_data" =>
        /\ ~ret.raised
        /\ Len(ret.value) = Len(log)
        /\ \A i \in 1..Len(log) : C2_Row(ret.value[i], log[i])

\* C2's case: two readings were appended, one with a label csv must quote, and loaded
C2_Witness ==
    /\ ret.op = "load_data"
    /\ Len(log) >= 2
    /\ Len(ret.value) = Len(log)
    /\ \E i \in 1..Len(log) : NeedsQuote(log[i].label)

\* C3: after N >= 1 save_new_reading calls on a store that started absent or empty the
\* file is one header row then N data rows; each call added one data row, and the header
\* with it exactly when the file was absent or empty as the call started.
C3_File(rows) ==
    /\ Len(rows) = Len(log) + 1
    /\ rows[1] = HEADERS
    /\ \A i \in 2..Len(rows) : rows[i] = DataRow(log[i - 1].value, log[i - 1].label,
                                                  log[i - 1].timestamp)
C3_Call(e, rows) ==
    /\ Len(rows) = (IF e.was_empty THEN 2 ELSE 1)
    /\ e.was_empty <=> rows[1] = HEADERS
    /\ rows[Len(rows)] = DataRow(e.value, e.label, e.timestamp)
C3_OneHeader ==
    Len(log) >= 1 =>
        /\ C3_File(reader(fileText).rows)
        /\ \A i \in 1..Len(log) :
              C3_Call(log[i], reader(SubSeq(fileText, log[i].pre + 1, log[i].post)).rows)

\* C3's case: three calls, the first on an existing empty file
C3_Witness ==
    /\ Len(log) = MaxAppends
    /\ log[1].was_empty /\ ~log[2].was_empty
    /\ Len(reader(fileText).rows) = MaxAppends + 1

\* What an arbitrary store means, read off its rows' descriptions
IsLoaded(e) == Len(e.f) >= 2 /\ e.num
LoadedEntries == SelectSeq(log.rows, IsLoaded)

RECURSIVE ValuesIn(_, _, _)
ValuesIn(es, year, month) ==
    IF es = <<>> THEN <<>>
    ELSE (IF es[1].year = year /\ es[1].month = month THEN <<es[1].v>> ELSE <<>>)
         \o ValuesIn(Tail(es), year, month)

\* the values of the loaded readings of the month asked for
Selected == ValuesIn(LoadedEntries, ret.arg[1], ret.arg[2])

IsSummaryCall == ret.op = "get_monthly_summary_data"

Less(a, b) == a.kind = "num" /\ b.kind = "num" /\ a.t < b.t
HasNan(vals) == \E i \in 1..Len(vals) : vals[i].kind = "nan"
RECURSIVE SumOf(_)
SumOf(vals) == IF vals = <<>> THEN 0 ELSE vals[1].t + SumOf(Tail(vals))

\* C4: a summary's total_readings, min, max and avg are the count, minimum, maximum and
\* mean of the values of the loaded readings whose timestamp is in the year and month
\* asked for, and of no other reading.  (min and max are values of the month none of
\* which is smaller, or larger; the mean of values with a nan among them is nan.)
C4_Min(m, vals) ==
    (\E i \in 1..Len(vals) : vals[i] = m) /\ \A i \in 1..Len(vals) : ~Less(vals[i], m)
C4_Max(m, vals) ==
    (\E i \in 1..Len(vals) : vals[i] = m) /\ \A i \in 1..Len(vals) : ~Less(m, vals[i])
C4_Mean(avg, vals) ==
    IF HasNan(vals) THEN avg.kind = "nan"
    ELSE avg.kind = "num" /\ avg.den > 0 /\ avg.num * Len(vals) = SumOf(vals) * avg.den
C4_Stats(s, vals) ==
    /\ s.total_readings = Len(vals)
    /\ C4_Min(s.min, vals)
    /\ C4_Max(s.max, vals)
    /\ C4_Mean(s.avg, vals)
C4_MonthOnly == (IsSummaryCall /\ ret.value.some) => C4_Stats(ret.value, Selected)

\* C4's case: a month with two different values summarised over a store that also holds
\* a reading of the same month of another year
C4_Witness ==
    /\ IsSummaryCall /\ ret.arg = <<2025, 1>> /\ ret.value.some
    /\ ret.value.total_readings = 2
    /\ ret.value.min # ret.value.max
    /\ \E i \in 1..Len(log.rows) :
          IsLoaded(log.rows[i]) /\ log.rows[i].year = 2024 /\ log.rows[i].month = 1

\* C5: get_monthly_summary_data returns None exactly when no loaded reading is in the
\* month asked for, never raises, and a summary counts at least one reading.
C5_Absent ==
    IsSummaryCall =>
        /\ ~ret.raised
        /\ ret.value.some <=> Selected # <<>>
        /\ ret.value.some => ret.value.total_readings >= 1

\* C5's case: None over a store whose loaded readings are all of other months
C5_Witness ==
    /\ IsSummaryCall /\ ~ret.value.some
    /\ fileExists /\ Len(LoadedEntries) >= 2

\* C6: in every summary the three counts are naturals and add up to total_readings.
C6_CountsSum ==
    (IsSummaryCall /\ ret.value.some) =>
        /\ ret.value.normal_count \in Nat
        /\ ret.value.low_count \in Nat
        /\ ret.value.high_count \in Nat
        /\ ret.value.normal_count + ret.value.low_count + ret.value.high_count
             = ret.value.total_readings

\* C6's case: a summary with readings under each of the three names
C6_Witness ==
    /\ IsSummaryCall /\ ret.value.some
    /\ ret.value.normal_count > 0 /\ ret.value.low_count > 0 /\ ret.value.high_count > 0

\* C7 as claimed: over a store whose first row is the header, load_data returns, in file
\* order, exactly the rows with all three fields and a numeric value field.
HasAllFields(e) == Len(e.f) >= 3 /\ e.num
C7_Row(row, e) ==
    /\ Len(row) = Len(e.f)
    /\ SameFloat(row[2], e.v)
    /\ \A j \in 1..Len(row) : j # 2 => row[j] = e.f[j]
C7_Rows(rows, es) ==
    /\ Len(rows) = Len(es)
    /\ \A i \in 1..Len(es) : C7_Row(rows[i], es[i])
C7_SkipsShortRows ==
    (ret.op = "load_data" /\ log.first = HEADERS) =>
        C7_Rows(ret.value, SelectSeq(log.rows, HasAllFields))

\* what load_data does return: the rows with a timestamp field and a float literal after it
C7_LoadsTwoFieldRows ==
    (ret.op = "load_data" /\ fileText # <<>>) => C7_Rows(ret.value, LoadedEntries)

\* C8 as claimed: no call raises; a load_data the storage failed returns []; a
\* save_new_reading the storage failed returns something a successful one does not and
\* leaves the file as it was.
C8_NoErrorEscapes ==
    /\ ~ret.raised
    /\ (ret.op = "load_data" /\ fault # "none") => ret.value = <<>>
    /\ (ret.op = "save_new_reading" /\ fault # "none") =>
          /\ ret.value # None
          /\ log[Len(log)].post = log[Len(log)].pre

\* C9 as claimed: every data row of the file has a value above 0 and the State that
\* classifies it.
C9_DataRow(row, p) ==
    /\ Len(row) = 3
    /\ p.ok
    /\ AboveTenths(p.v, 0)
    /\ C1_Label(p.v, row[3])
C9_DataRows(rows) == \A i \in 2..Len(rows) : C9_DataRow(rows[i], ParseFloat(rows[i][2]))
C9_PositiveAndClassified == C9_DataRows(reader(fileText).rows)

\* the part of C9 that holds: a call only appends to the file
C9_AppendOnly ==
    [][Len(fileText') >= Len(fileText)
       /\ SubSeq(fileText', 1, Len(fileText)) = fileText]_vars

\* C10: the three counts are the numbers of values of the month that get_state names Low,
\* Normal and High, and a store that differs only in its State fields has the same summary.
CountOf(vals, label) == Cardinality({i \in 1..Len(vals) : get_state(vals[i]) = label})
Relabel(e, label) == IF Len(e.f) >= 3 THEN [e EXCEPT !.f[3] = label] ELSE e
Relabelled(es, label) == [i \in 1..Len(es) |-> Relabel(es[i], label)]
RelabelledText(label) == RawLine(log.first) \o RawLines(Relabelled(log.rows, label))
C10_SameSummary(label) ==
    get_monthly_summary_data(ReadData(RelabelledText(label)), ret.arg[1], ret.arg[2])
      = ret.value
C10_Counts(s, vals) ==
    /\ s.low_count = CountOf(vals, T_Low)
    /\ s.normal_count = CountOf(vals, T_Normal)
    /\ s.high_count = CountOf(vals, T_High)
C10_CountsFromValues ==
    (IsSummaryCall /\ fileText # <<>>) =>
        /\ ret.value.some => C10_Counts(ret.value, Selected)
        /\ \A label \in {T_Bogus, T_Low} : C10_SameSummary(label)

\* C10's case: a summary over a month holding a reading stored High whose value is Low
C10_Witness ==
    /\ IsSummaryCall /\ ret.value.some
    /\ ret.value.low_count = 1 /\ ret.value.high_count = 0
    /\ \E i \in 1..Len(log.rows) :
          /\ log.rows[i].v = Num(650)
          /\ log.rows[i].f[3] = T_High

====
